---- MODULE Spec2Model ----
(***************************************************************************)
(* A model of enrich_sarif.py: the one-shot merge of an assessment         *)
(* document (YAML) into a findings document (SARIF, JSON).                  *)
(*                                                                         *)
(* JSON/YAML objects are records whose DOMAIN is the set of keys present,  *)
(* lists are sequences.  Strings the program takes apart, compares after   *)
(* lower-casing or joins (rule ids, requirement ids, result labels,        *)
(* messages) are sequences of one-character strings, so that str.lower()   *)
(* and the f-string joins are computed, not assumed.  Strings the program  *)
(* only copies (uris, tool names, levels) are plain strings.               *)
(***************************************************************************)
EXTENDS Integers, Sequences, FiniteSets, TLC

VARIABLES
    sarif_file,      \* the findings file on disk: [parsable, data]
    yaml_src,        \* the assessment argument: [kind, data]
    pc,              \* position of the process in enrich_sarif / __main__
    sarif_data,      \* json.load's result, mutated in place (run and all_results alias into it)
    existing_rule_ids,
    yaml_data,       \* yaml.safe_load's result, NoneObj when not read or on error
    stderr,          \* number of lines written to the diagnostic stream
    result_count,    \* value returned by enrich_sarif in the current invocation
    invocation,      \* how many times the command line has been started
    n_existing,      \* len(all_results) when the merge loop is entered
    sarif_in,        \* the findings file as the current invocation found it
    history,         \* one record per completed invocation: input, output, returned count
    label,           \* argument of a direct call of map_result_to_sarif_level
    level            \* its returned value

vars == <<sarif_file, yaml_src, pc, sarif_data, existing_rule_ids, yaml_data,
          stderr, result_count, invocation, n_existing, sarif_in, history, label, level>>

(***************************************************************************)
(* Bounds of the model.                                                    *)
(***************************************************************************)
MaxResults == 2        \* pre-existing findings in the first run
MaxSuites == 2         \* evaluation suites in the assessment document
MaxInvocations == 2    \* times the command is run on the same pair of files

(***************************************************************************)
(* Python values.                                                          *)
(***************************************************************************)
\* None, as a value distinct from every string of characters.
PyNone == <<"<None>">>

\* None where the program expects an object (a dict).
NoneObj == [py_none |-> TRUE]

EmptyStr == <<>>

UpperAlpha == <<"A","B","C","D","E","F","G","H","I","J","K","L","M",
                "N","O","P","Q","R","S","T","U","V","W","X","Y","Z">>

LowerAlpha == <<"a","b","c","d","e","f","g","h","i","j","k","l","m",
                "n","o","p","q","r","s","t","u","v","w","x","y","z">>

LowerChar(c) ==
    IF \E i \in DOMAIN UpperAlpha : UpperAlpha[i] = c
    THEN LowerAlpha[CHOOSE i \in DOMAIN UpperAlpha : UpperAlpha[i] = c]
    ELSE c

UpperChar(c) ==
    IF \E i \in DOMAIN LowerAlpha : LowerAlpha[i] = c
    THEN UpperAlpha[CHOOSE i \in DOMAIN LowerAlpha : LowerAlpha[i] = c]
    ELSE c

\* str.lower()
StrLower(s) == [i \in 1..Len(s) |-> LowerChar(s[i])]

\* Truth value of a string-or-None: None and "" are false.
Truthy(v) == v # PyNone /\ v # EmptyStr

\* dict helpers: key in d, d.get(k, default), d[k] = v, del d[k]
Has(d, k) == k \in DOMAIN d

Get(d, k, default) == IF k \in DOMAIN d THEN d[k] ELSE default

Put(d, k, v) == [f \in DOMAIN d \cup {k} |-> IF f = k THEN v ELSE d[f]]

Del(d, k) == [f \in DOMAIN d \ {k} |-> d[f]]

(***************************************************************************)
(* String literals of the program.                                         *)
(***************************************************************************)
s_failed == <<"f","a","i","l","e","d">>
s_error == <<"e","r","r","o","r">>
s_warn == <<"w","a","r","n">>
s_warning == <<"w","a","r","n","i","n","g">>
s_needs_review == <<"n","e","e","d","s"," ","r","e","v","i","e","w">>
s_passed == <<"p","a","s","s","e","d">>
s_pass == <<"p","a","s","s">>
NotRun == <<"N","o","t"," ","R","u","n">>
Slash == <<"/">>
ColonSpace == <<":"," ">>
PlaceholderUri == "README.md"
DefaultToolName == "OSPS Security Assessment"
DefaultToolVersion == "1.0.0"

(***************************************************************************)
(* map_result_to_sarif_level                                               *)
(***************************************************************************)
map_result_to_sarif_level_cased(result) ==
    LET result_lower == IF Truthy(result) THEN result ELSE EmptyStr
    IN  IF result_lower \in {s_failed, s_error} THEN "error"
        ELSE IF result_lower \in {s_warn, s_warning, s_needs_review} THEN "warning"
        ELSE IF result_lower \in {s_passed, s_pass} THEN "note"
        ELSE "none"

map_result_to_sarif_level(result) ==
    LET result_lower == IF Truthy(result) THEN StrLower(result) ELSE EmptyStr
    IN  IF result_lower \in {s_failed, s_error} THEN "error"
        ELSE IF result_lower \in {s_warn, s_warning, s_needs_review} THEN "warning"
        ELSE IF result_lower \in {s_passed, s_pass} THEN "note"
        ELSE "none"

(***************************************************************************)
(* enrich_sarif, lines 34-54: the run collection and the first run.        *)
(***************************************************************************)
DefaultRun ==
    [tool |-> [driver |-> [name |-> DefaultToolName, version |-> DefaultToolVersion]],
     results |-> <<>>]

EnsureRunsDropLater(doc) ==
    LET d1 == IF Has(doc, "runs") THEN doc ELSE Put(doc, "runs", <<>>)
        first == IF Len(d1.runs) = 0 THEN DefaultRun ELSE d1.runs[1]
    IN  [d1 EXCEPT !.runs =
            <<IF Has(first, "results") THEN first ELSE Put(first, "results", <<>>)>>]

EnsureRuns(doc) ==
    LET d1 == IF Has(doc, "runs") THEN doc ELSE Put(doc, "runs", <<>>)
        d2 == IF Len(d1.runs) = 0 THEN [d1 EXCEPT !.runs = Append(@, DefaultRun)] ELSE d1
    IN  IF Has(d2.runs[1], "results") THEN d2
        ELSE [d2 EXCEPT !.runs[1] = Put(@, "results", <<>>)]

(***************************************************************************)
(* enrich_sarif, lines 59-79: rule ids seen and placeholder locations.     *)
(***************************************************************************)
PlaceholderPhysical == [artifactLocation |-> [uri |-> PlaceholderUri]]

CollectRuleIds(results) ==
    {results[i].ruleId : i \in {j \in DOMAIN results : Has(results[j], "ruleId")}}

NormalizeLocation(location) ==
    IF ~Has(location, "physicalLocation")
    THEN Put(location, "physicalLocation", PlaceholderPhysical)
    ELSE location

NormalizeResultMissingOnly(result) ==
    IF ~Has(result, "locations")
    THEN Put(result, "locations", <<[physicalLocation |-> PlaceholderPhysical]>>)
    ELSE result

NormalizeResult(result) ==
    IF ~Has(result, "locations") \/ Len(result.locations) = 0
    THEN Put(result, "locations", <<[physicalLocation |-> PlaceholderPhysical]>>)
    ELSE [result EXCEPT !.locations =
              [i \in DOMAIN result.locations |-> NormalizeLocation(result.locations[i])]]

NormalizeResults(results) == [i \in DOMAIN results |-> NormalizeResult(results[i])]

(***************************************************************************)
(* enrich_sarif, lines 90-128: the merge loop.  acc is the pair            *)
(* (all_results, existing_rule_ids) the loop mutates.                      *)
(***************************************************************************)
ShouldAddNoSentinel(req_id, result) ==
    Truthy(req_id) /\ Truthy(result)

ShouldAdd(req_id, result) ==
    Truthy(req_id) /\ Truthy(result) /\ result # NotRun

RuleId(control_id, req_id) == control_id \o Slash \o req_id

MessageTextNoFallback(req_id, result, message) == message

MessageText(req_id, result, message) ==
    IF Truthy(message) THEN message ELSE req_id \o ColonSpace \o result

NewResult(control_id, req_id, result, message) ==
    LET rule_id == RuleId(control_id, req_id)
    IN  [ruleId |-> rule_id,
         level |-> map_result_to_sarif_level(result),
         message |-> [text |-> MessageText(req_id, result, message)],
         locations |-> <<[physicalLocation |-> PlaceholderPhysical,
                          logicalLocations |-> <<[fullyQualifiedName |-> rule_id]>>]>>]

MergeAssessmentNoDedup(acc, control_id, assessment) ==
    LET req_id == Get(assessment, "requirement_id", EmptyStr)
        result == Get(assessment, "result", EmptyStr)
        message == Get(assessment, "message", EmptyStr)
        rule_id == RuleId(control_id, req_id)
    IN  IF ShouldAdd(req_id, result)
        THEN [results |-> Append(acc.results, NewResult(control_id, req_id, result, message)),
              seen |-> acc.seen \cup {rule_id}]
        ELSE acc

MergeAssessmentPrepend(acc, control_id, assessment) ==
    LET req_id == Get(assessment, "requirement_id", EmptyStr)
        result == Get(assessment, "result", EmptyStr)
        message == Get(assessment, "message", EmptyStr)
        rule_id == RuleId(control_id, req_id)
    IN  IF ShouldAdd(req_id, result) /\ rule_id \notin acc.seen
        THEN [results |-> <<NewResult(control_id, req_id, result, message)>> \o acc.results,
              seen |-> acc.seen \cup {rule_id}]
        ELSE acc

MergeAssessment(acc, control_id, assessment) ==
    LET req_id == Get(assessment, "requirement_id", EmptyStr)
        result == Get(assessment, "result", EmptyStr)
        message == Get(assessment, "message", EmptyStr)
        rule_id == RuleId(control_id, req_id)
    IN  IF ShouldAdd(req_id, result) /\ rule_id \notin acc.seen
        THEN [results |-> Append(acc.results, NewResult(control_id, req_id, result, message)),
              seen |-> acc.seen \cup {rule_id}]
        ELSE acc

RECURSIVE MergeAssessments(_, _, _, _)
MergeAssessments(acc, control_id, assessments, i) ==
    IF i > Len(assessments) THEN acc
    ELSE MergeAssessments(MergeAssessment(acc, control_id, assessments[i]),
                          control_id, assessments, i + 1)

MergeControl(acc, control) ==
    IF Has(control, "assessments")
    THEN MergeAssessments(acc, Get(control, "control_id", EmptyStr), control.assessments, 1)
    ELSE acc

RECURSIVE MergeControls(_, _, _)
MergeControls(acc, controls, i) ==
    IF i > Len(controls) THEN acc
    ELSE MergeControls(MergeControl(acc, controls[i]), controls, i + 1)

MergeSuite(acc, suite) ==
    IF Has(suite, "control_evaluations")
    THEN MergeControls(acc, suite.control_evaluations, 1)
    ELSE acc

RECURSIVE MergeSuites(_, _, _)
MergeSuites(acc, suites, i) ==
    IF i > Len(suites) THEN acc
    ELSE MergeSuites(MergeSuite(acc, suites[i]), suites, i + 1)

MergeDocument(acc, data) ==
    IF data # NoneObj /\ Has(data, "evaluation_suites")
    THEN MergeSuites(acc, data.evaluation_suites, 1)
    ELSE acc

(***************************************************************************)
(* enrich_sarif, lines 130-139: the tool driver and the results write-back.*)
(***************************************************************************)
FinalizeRunKeepRules(run) ==
    IF Has(run, "tool") /\ Has(run.tool, "driver")
    THEN [run EXCEPT !.tool.driver =
              IF Get(@, "name", "") = "" THEN Put(@, "name", DefaultToolName) ELSE @]
    ELSE run

FinalizeRunAlways(run) ==
    LET tool == Get(run, "tool", [driver |-> [version |-> DefaultToolVersion]])
        drv == Get(tool, "driver", [version |-> DefaultToolVersion])
        d1 == IF Get(drv, "name", "") = "" THEN Put(drv, "name", DefaultToolName) ELSE drv
        d2 == IF Has(d1, "rules") THEN Del(d1, "rules") ELSE d1
    IN  Put(run, "tool", Put(tool, "driver", d2))

FinalizeRun(run) ==
    LET r1 == IF Has(run, "tool") /\ Has(run.tool, "driver")
              THEN LET drv == run.tool.driver
                       d1 == IF Get(drv, "name", "") = ""
                             THEN Put(drv, "name", DefaultToolName) ELSE drv
                       d2 == IF Has(d1, "rules") THEN Del(d1, "rules") ELSE d1
                   IN  [run EXCEPT !.tool.driver = d2]
              ELSE run
    IN  Put(r1, "results", r1.results)      \* run["results"] = all_results (the same list)

(***************************************************************************)
(* Inputs: the two files the command line names.                           *)
(***************************************************************************)
SeqsUpTo(S, n) == UNION {[1..k -> S] : k \in 0..n}

sC1 == <<"C","1">>
sR1 == <<"R","1">>
sR2 == <<"R","2">>
sC1R1 == <<"C","1","/","R","1">>
sC1R2 == <<"C","1","/","R","2">>
sOther == <<"X","/","Y">>
lblFailed == <<"F","a","i","l","e","d">>
lblPASS == <<"P","A","S","S">>
lblPassed == <<"P","a","s","s","e","d">>
lblWarn == <<"w","a","r","n">>
lblNeedsReview == <<"N","e","e","d","s"," ","R","e","v","i","e","w">>
lblNotRunLower == <<"n","o","t"," ","r","u","n">>
msgBad == <<"b","a","d">>
msgOther == <<"o","t","h","e","r">>
msgOld == <<"o","l","d">>

\* control C1: an entry to add, a "Not Run" entry, a repeated rule id,
\* an empty requirement id, an empty result
ControlA ==
    [control_id |-> sC1,
     assessments |-> <<
        [requirement_id |-> sR1, result |-> lblFailed, message |-> msgBad],
        [requirement_id |-> sR2, result |-> NotRun, message |-> msgBad],
        [requirement_id |-> sR1, result |-> lblPASS],
        [requirement_id |-> EmptyStr, result |-> lblFailed, message |-> msgBad],
        [requirement_id |-> sR2, result |-> EmptyStr, message |-> msgBad] >>]

\* a control without control_id: an empty message, a missing requirement id,
\* a missing result, a label that is not the sentinel's spelling
ControlB ==
    [assessments |-> <<
        [requirement_id |-> sR1, result |-> lblNeedsReview, message |-> EmptyStr],
        [result |-> lblFailed, message |-> msgBad],
        [requirement_id |-> sR2, message |-> msgBad],
        [requirement_id |-> sR2, result |-> lblNotRunLower] >>]

\* a control without assessments
ControlBare == [control_id |-> sC1]

\* control C1 again: C1/R1 with another label and message, and C1/R2
ControlC ==
    [control_id |-> sC1,
     assessments |-> <<
        [requirement_id |-> sR1, result |-> lblWarn, message |-> msgOther],
        [requirement_id |-> sR2, result |-> lblPassed] >>]

ControlLists ==
    {<<>>, <<ControlA>>, <<ControlB>>, <<ControlA, ControlB>>, <<ControlC, ControlA>>,
     <<ControlBare, ControlC>>}

Suites ==
    {[name |-> "empty suite"]} \cup {[control_evaluations |-> cs] : cs \in ControlLists}

SuiteExtra == [control_evaluations |-> <<ControlBare, ControlC>>]

YamlDocs ==
    {[metadata |-> "no suites"]}
    \cup {[evaluation_suites |-> ss] : ss \in SeqsUpTo(Suites, MaxSuites)}

YamlDocSmall ==
    [evaluation_suites |-> <<[control_evaluations |-> <<ControlA, ControlB>>], SuiteExtra>>]

\* no second argument; a path that does not exist; a file yaml cannot parse;
\* an empty file (safe_load returns None); a parsed document
YamlUnread == {[kind |-> k] : k \in {"nopath", "nofile", "unparsable", "empty"}}

YamlRich == YamlUnread \cup {[kind |-> "parsed", data |-> d] : d \in YamlDocs}

YamlSmall == YamlUnread \cup {[kind |-> "parsed", data |-> YamlDocSmall]}

GoodLocation == [physicalLocation |-> [artifactLocation |-> [uri |-> "src/app.py"]]]
LogicalOnlyLocation == [logicalLocations |-> <<[fullyQualifiedName |-> sOther]>>]
RegionOnlyLocation == [physicalLocation |-> [region |-> [startLine |-> 7]]]

FindingA == [ruleId |-> sC1R1, level |-> "warning", message |-> [text |-> msgOld]]
FindingB == [level |-> "note", message |-> [text |-> msgOld], locations |-> <<GoodLocation>>]
FindingC == [ruleId |-> sOther, level |-> "error", message |-> [text |-> msgOld],
             locations |-> <<>>]
FindingD == [ruleId |-> sC1R2, level |-> "none", message |-> [text |-> msgOld],
             locations |-> <<LogicalOnlyLocation, GoodLocation>>]
FindingE == [ruleId |-> sOther, level |-> "note", message |-> [text |-> msgBad],
             locations |-> <<RegionOnlyLocation>>]

FindingsSmall == {FindingA, FindingB}
FindingsRich == {FindingA, FindingB, FindingC, FindingD, FindingE}

Rules == <<[id |-> "rule-1"]>>

ToolPlain == [driver |-> [name |-> "Scanner", version |-> "2.0"]]

Tools ==
    {ToolPlain,
     [extensions |-> <<>>],
     [driver |-> [name |-> "", version |-> "2.0", rules |-> Rules]],
     [driver |-> [version |-> "2.0"]],
     [driver |-> [name |-> "Scanner", rules |-> Rules]]}

RunsWith(tools, findings) ==
    {[tool |-> t] : t \in tools}
    \cup {[results |-> rs] : rs \in SeqsUpTo(findings, MaxResults)}
    \cup {[tool |-> t, results |-> rs] : t \in tools, rs \in SeqsUpTo(findings, MaxResults)}

\* a second run, which enrich_sarif never looks at
LaterRuns ==
    {[tool |-> [driver |-> [name |-> "", rules |-> Rules]]],
     [tool |-> ToolPlain, results |-> <<FindingA>>]}

DocsWith(tools, findings, later) ==
    {[version |-> "2.1.0"], [version |-> "2.1.0", runs |-> <<>>]}
    \cup {[version |-> "2.1.0", runs |-> <<r>>] : r \in RunsWith(tools, findings)}
    \cup {[version |-> "2.1.0", runs |-> <<r, l>>] : r \in RunsWith(tools, findings), l \in later}

FilesOf(docs) == {[parsable |-> FALSE]} \cup {[parsable |-> TRUE, data |-> d] : d \in docs}

SarifSmall == FilesOf(DocsWith({ToolPlain}, FindingsSmall, {}))
SarifRich == FilesOf(DocsWith(Tools, FindingsRich, LaterRuns))

(***************************************************************************)
(* The process.                                                            *)
(***************************************************************************)
Init ==
    /\ \/ sarif_file \in SarifSmall /\ yaml_src \in YamlRich
       \/ sarif_file \in SarifRich /\ yaml_src \in YamlSmall
    /\ pc = "start"
    /\ sarif_data = NoneObj
    /\ existing_rule_ids = {}
    /\ yaml_data = NoneObj
    /\ stderr = 0
    /\ result_count = 0
    /\ invocation = 1
    /\ n_existing = 0
    /\ sarif_in = sarif_file
    /\ history = <<>>
    /\ label = EmptyStr
    /\ level = "unset"

\* run = sarif_data["runs"][0]; all_results = run["results"]: both are
\* references into sarif_data, not copies.
run == sarif_data.runs[1]
all_results == sarif_data.runs[1].results

\* lines 31-32: json.load succeeds
LoadSarif ==
    /\ pc = "start"
    /\ sarif_file.parsable
    /\ sarif_data' = sarif_file.data
    /\ pc' = "ensure"
    /\ UNCHANGED <<sarif_file, yaml_src, existing_rule_ids, yaml_data, stderr,
                   result_count, invocation, n_existing, sarif_in, history, label, level>>

\* lines 31-32: json.load raises, nothing catches it
LoadSarifFails ==
    /\ pc = "start"
    /\ ~sarif_file.parsable
    /\ pc' = "fatal"
    /\ UNCHANGED <<sarif_file, yaml_src, sarif_data, existing_rule_ids, yaml_data, stderr,
                   result_count, invocation, n_existing, sarif_in, history, label, level>>

\* lines 34-54
EnsureStructure ==
    /\ pc = "ensure"
    /\ sarif_data' = EnsureRuns(sarif_data)
    /\ pc' = "normalize"
    /\ UNCHANGED <<sarif_file, yaml_src, existing_rule_ids, yaml_data, stderr,
                   result_count, invocation, n_existing, sarif_in, history, label, level>>

\* lines 56-79
NormalizeExisting ==
    /\ pc = "normalize"
    /\ existing_rule_ids' = CollectRuleIds(all_results)
    /\ sarif_data' = [sarif_data EXCEPT !.runs[1].results = NormalizeResults(@)]
    /\ pc' = "read_yaml"
    /\ UNCHANGED <<sarif_file, yaml_src, yaml_data, stderr,
                   result_count, invocation, n_existing, sarif_in, history, label, level>>

\* lines 82-88 with the exception propagating instead of being caught
ReadYamlUncaught ==
    /\ pc = "read_yaml"
    /\ yaml_data' = IF yaml_src.kind = "parsed" THEN yaml_src.data ELSE NoneObj
    /\ stderr' = stderr
    /\ pc' = IF yaml_src.kind = "unparsable" THEN "fatal" ELSE "merge"
    /\ UNCHANGED <<sarif_file, yaml_src, sarif_data, existing_rule_ids,
                   result_count, invocation, n_existing, sarif_in, history, label, level>>

\* lines 82-88: the file is read only when a path is given and exists; any
\* exception is reported and leaves yaml_data = None
ReadYaml ==
    /\ pc = "read_yaml"
    /\ yaml_data' = IF yaml_src.kind = "parsed" THEN yaml_src.data ELSE NoneObj
    /\ stderr' = IF yaml_src.kind = "unparsable" THEN stderr + 1 ELSE stderr
    /\ pc' = "merge"
    /\ UNCHANGED <<sarif_file, yaml_src, sarif_data, existing_rule_ids,
                   result_count, invocation, n_existing, sarif_in, history, label, level>>

\* lines 90-128
MergeYaml ==
    /\ pc = "merge"
    /\ LET acc == MergeDocument([results |-> all_results, seen |-> existing_rule_ids],
                                yaml_data)
       IN  /\ sarif_data' = [sarif_data EXCEPT !.runs[1].results = acc.results]
           /\ existing_rule_ids' = acc.seen
    /\ n_existing' = Len(all_results)
    /\ pc' = "finalize"
    /\ UNCHANGED <<sarif_file, yaml_src, yaml_data, stderr,
                   result_count, invocation, sarif_in, history, label, level>>

\* lines 130-139
Finalize ==
    /\ pc = "finalize"
    /\ sarif_data' = [sarif_data EXCEPT !.runs[1] = FinalizeRun(@)]
    /\ pc' = "write"
    /\ UNCHANGED <<sarif_file, yaml_src, existing_rule_ids, yaml_data, stderr,
                   result_count, invocation, n_existing, sarif_in, history, label, level>>

\* lines 141-143: the tree is written as JSON over the findings file.  The
\* tree holds only objects with string keys, lists and strings, which
\* json.load reads back as written.
WriteSarif ==
    /\ pc = "write"
    /\ sarif_file' = [parsable |-> TRUE, data |-> sarif_data]
    /\ pc' = "return"
    /\ UNCHANGED <<yaml_src, sarif_data, existing_rule_ids, yaml_data, stderr,
                   result_count, invocation, n_existing, sarif_in, history, label, level>>

\* line 145 and lines 151-152
Return ==
    /\ pc = "return"
    /\ result_count' = Len(all_results)
    /\ history' = Append(history, [input |-> sarif_in.data,
                                   output |-> sarif_file.data,
                                   count |-> Len(all_results),
                                   existing |-> n_existing,
                                   stderr |-> stderr])
    /\ pc' = "done"
    /\ UNCHANGED <<sarif_file, yaml_src, sarif_data, existing_rule_ids, yaml_data, stderr,
                   invocation, n_existing, sarif_in, label, level>>

\* the command is started again on the same two paths
Rerun ==
    /\ pc = "done"
    /\ invocation < MaxInvocations
    /\ invocation' = invocation + 1
    /\ pc' = "start"
    /\ sarif_in' = sarif_file
    /\ sarif_data' = NoneObj
    /\ existing_rule_ids' = {}
    /\ yaml_data' = NoneObj
    /\ stderr' = 0
    /\ result_count' = 0
    /\ n_existing' = 0
    /\ UNCHANGED <<sarif_file, yaml_src, history, label, level>>

Next ==
    \/ LoadSarif
    \/ LoadSarifFails
    \/ EnsureStructure
    \/ NormalizeExisting
    \/ ReadYaml
    \/ MergeYaml
    \/ Finalize
    \/ WriteSarif
    \/ Return
    \/ Rerun

Spec == Init /\ [][Next]_vars

(***************************************************************************)
(* A direct call of map_result_to_sarif_level on one label.                *)
(***************************************************************************)
RECURSIVE Casings(_)
Casings(w) ==
    IF w = <<>> THEN {<<>>}
    ELSE {<<c>> \o t : c \in {Head(w), UpperChar(Head(w))}, t \in Casings(Tail(w))}

Keywords == {s_failed, s_error, s_warn, s_warning, s_needs_review, s_passed, s_pass}

\* words that are none of the keywords: prefixes, plurals, padded, the sentinel
OtherWords ==
    {<<"f","a","i","l">>, <<"e","r","r","o","r","s">>, <<"w","a","r","n","e","d">>,
     <<"p","a","s","s","i","n","g">>, <<" ","p","a","s","s">>, <<"n","o","t"," ","r","u","n">>,
     <<"n","e","e","d","s","_","r","e","v","i","e","w">>, <<"o","k">>, <<"0">>}

LabelInputs ==
    {PyNone, EmptyStr}
    \cup UNION {Casings(w) : w \in Keywords}
    \cup UNION {Casings(w) : w \in OtherWords}

LevelInit ==
    /\ label \in LabelInputs
    /\ level = "unset"
    /\ pc = "call"
    /\ sarif_file = [parsable |-> FALSE]
    /\ yaml_src = [kind |-> "nopath"]
    /\ sarif_data = NoneObj
    /\ existing_rule_ids = {}
    /\ yaml_data = NoneObj
    /\ stderr = 0
    /\ result_count = 0
    /\ invocation = 0
    /\ n_existing = 0
    /\ sarif_in = [parsable |-> FALSE]
    /\ history = <<>>

\* lines 16-26
Classify ==
    /\ pc = "call"
    /\ level' = map_result_to_sarif_level(label)
    /\ pc' = "returned"
    /\ UNCHANGED <<sarif_file, yaml_src, sarif_data, existing_rule_ids, yaml_data, stderr,
                   result_count, invocation, n_existing, sarif_in, history, label>>

LevelNext == Classify

SpecLevel == LevelInit /\ [][LevelNext]_vars

(***************************************************************************)
(* Vocabulary of the properties.  None of these uses the operators that    *)
(* model the program's steps.                                              *)
(***************************************************************************)
Last == history[Len(history)]

\* the findings of the first run of a document, <<>> when it has none
FirstResults(doc) ==
    IF Has(doc, "runs") /\ Len(doc.runs) > 0 /\ Has(doc.runs[1], "results")
    THEN doc.runs[1].results
    ELSE <<>>

HasRuns(doc) == Has(doc, "runs") /\ Len(doc.runs) > 0

\* the findings the invocation recorded in h appended
AppendedOf(h) == SubSeq(FirstResults(h.output), h.existing + 1, Len(FirstResults(h.output)))

WithoutLocations(result) == [f \in DOMAIN result \ {"locations"} |-> result[f]]

HasArtifactUri(location) ==
    /\ Has(location, "physicalLocation")
    /\ Has(location.physicalLocation, "artifactLocation")
    /\ Has(location.physicalLocation.artifactLocation, "uri")

PlaceholderLocation == [physicalLocation |-> [artifactLocation |-> [uri |-> "README.md"]]]

\* the document with the locations of every finding of every run erased
EraseLocations(doc) ==
    IF ~Has(doc, "runs") THEN doc
    ELSE [doc EXCEPT !.runs =
            [k \in DOMAIN doc.runs |->
                IF Has(doc.runs[k], "results")
                THEN [doc.runs[k] EXCEPT !.results =
                        [i \in DOMAIN doc.runs[k].results |->
                            WithoutLocations(doc.runs[k].results[i])]]
                ELSE doc.runs[k]]]

\* s is some letter-casing of the lower-case word w
IsCasingOf(s, w) ==
    /\ s # PyNone
    /\ Len(s) = Len(w)
    /\ \A i \in 1..Len(w) : s[i] = w[i] \/ s[i] = UpperChar(w[i])

ExpectedLevel(lbl) ==
    IF \E w \in {s_failed, s_error} : IsCasingOf(lbl, w) THEN "error"
    ELSE IF \E w \in {s_warn, s_warning, s_needs_review} : IsCasingOf(lbl, w) THEN "warning"
    ELSE IF \E w \in {s_passed, s_pass} : IsCasingOf(lbl, w) THEN "note"
    ELSE "none"

\* the assessment entries of a document in document order, each with the
\* control id of the control it stands under
RECURSIVE Concat(_, _)
Concat(seqs, i) == IF i > Len(seqs) THEN <<>> ELSE seqs[i] \o Concat(seqs, i + 1)

EntriesOfControl(c) ==
    IF Has(c, "assessments")
    THEN [k \in DOMAIN c.assessments |->
            [cid |-> IF Has(c, "control_id") THEN c.control_id ELSE <<>>,
             a |-> c.assessments[k]]]
    ELSE <<>>

EntriesOfSuite(su) ==
    IF Has(su, "control_evaluations")
    THEN Concat([j \in DOMAIN su.control_evaluations |->
                    EntriesOfControl(su.control_evaluations[j])], 1)
    ELSE <<>>

EntriesOf(src) ==
    IF src.kind = "parsed" /\ Has(src.data, "evaluation_suites")
    THEN Concat([j \in DOMAIN src.data.evaluation_suites |->
                    EntriesOfSuite(src.data.evaluation_suites[j])], 1)
    ELSE <<>>

\* an entry with a non-empty requirement id and a non-empty result other than "Not Run"
Eligible(e) ==
    /\ Has(e.a, "requirement_id") /\ e.a.requirement_id # <<>>
    /\ Has(e.a, "result") /\ e.a.result # <<>>
    /\ e.a.result # <<"N","o","t"," ","R","u","n">>

EntryRuleId(e) == e.cid \o <<"/">> \o e.a.requirement_id

\* the finding the spec describes for an eligible entry
ExpectedFinding(e) ==
    [ruleId |-> EntryRuleId(e),
     level |-> ExpectedLevel(e.a.result),
     message |-> [text |-> IF Has(e.a, "message") /\ e.a.message # <<>>
                           THEN e.a.message
                           ELSE e.a.requirement_id \o <<":"," ">> \o e.a.result],
     locations |-> <<[physicalLocation |-> [artifactLocation |-> [uri |-> "README.md"]],
                      logicalLocations |-> <<[fullyQualifiedName |-> EntryRuleId(e)]>>]>>]

RuleIdsIn(results) == {results[i].ruleId : i \in {j \in DOMAIN results : Has(results[j], "ruleId")}}

\* the entries that are eligible and whose rule id neither a pre-existing
\* finding nor an earlier eligible entry carries, in document order
FirstEligible(src, doc) ==
    LET es == EntriesOf(src)
        keep == {i \in DOMAIN es :
                    /\ Eligible(es[i])
                    /\ EntryRuleId(es[i]) \notin RuleIdsIn(FirstResults(doc))
                    /\ \A j \in 1..(i - 1) :
                          Eligible(es[j]) => EntryRuleId(es[j]) # EntryRuleId(es[i])}
        nth[k \in 0..Cardinality(keep)] ==
            IF k = 0 THEN 0 ELSE CHOOSE i \in keep : i > nth[k - 1] /\ \A j \in keep : j > nth[k - 1] => i <= j
    IN  [k \in 1..Cardinality(keep) |-> es[nth[k]]]

(***************************************************************************)
(* Properties.                                                             *)
(***************************************************************************)
Completed == pc = "done"

\* C6: a call of map_result_to_sarif_level returns, for every label (None
\* and the empty string included), one of error, warning, note, none: error
\* exactly for the letter-casings of failed/error, warning exactly for those
\* of warn/warning/needs review, note exactly for those of passed/pass, and
\* none for every other label.
C6_LevelTotalCaseInsensitive ==
    pc = "returned" =>
        /\ level \in {"error", "warning", "note", "none"}
        /\ level = "error" <=> \E w \in {s_failed, s_error} : IsCasingOf(label, w)
        /\ level = "warning" <=>
              \E w \in {s_warn, s_warning, s_needs_review} : IsCasingOf(label, w)
        /\ level = "note" <=> \E w \in {s_passed, s_pass} : IsCasingOf(label, w)
        /\ (label = PyNone \/ label = EmptyStr) => level = "none"

C6_Witness ==
    /\ pc = "returned"
    /\ label = <<"N","e","e","d","s"," ","R","e","v","i","e","w">>
    /\ level = "warning"

\* C1: when the command is run again on the file it wrote, with the same
\* assessment document, the second run (and every later one) writes the same
\* document and returns the same count as the first, appends no finding, and
\* no rule id of an appended finding occurs twice in the results.
C1_Idempotent ==
    \A k \in 2..Len(history) :
        LET rs == FirstResults(history[k].output)
        IN  /\ history[k].input = history[k - 1].output
            /\ history[k].output = history[1].output
            /\ history[k].count = history[1].count
            /\ history[k].count = history[k].existing
            /\ \A i \in (history[1].existing + 1)..Len(rs) : \A j \in 1..Len(rs) :
                  (i # j /\ Has(rs[j], "ruleId")) => rs[j].ruleId # rs[i].ruleId

C1_Witness ==
    /\ Len(history) = MaxInvocations
    /\ history[1].existing > 0
    /\ history[1].count > history[1].existing + 1

\* C2 as stated: every finding of the written document has a location with
\* physicalLocation.artifactLocation.uri.
C2_EveryFindingHasArtifactUri ==
    Completed =>
        \A k \in DOMAIN Last.output.runs :
            Has(Last.output.runs[k], "results") =>
                \A i \in DOMAIN Last.output.runs[k].results :
                    LET f == Last.output.runs[k].results[i]
                    IN  /\ Has(f, "locations")
                        /\ \E l \in DOMAIN f.locations : HasArtifactUri(f.locations[l])

\* C2 amended: every finding of the first run of the written document has at
\* least one location and each of its locations has a physicalLocation; a
\* pre-existing finding with no location (missing or empty list) has exactly
\* the one placeholder location README.md; a location that had no
\* physicalLocation has the placeholder as its physicalLocation and is
\* otherwise as it was; a location that had a physicalLocation is unchanged,
\* with or without an artifact uri.
C2_FirstRunLocations ==
    Completed =>
        LET ins == FirstResults(Last.input)
            outs == FirstResults(Last.output)
        IN  /\ \A i \in DOMAIN outs :
                  /\ Has(outs[i], "locations")
                  /\ Len(outs[i].locations) >= 1
                  /\ \A l \in DOMAIN outs[i].locations :
                        Has(outs[i].locations[l], "physicalLocation")
            /\ Len(ins) <= Len(outs)
            /\ \A i \in DOMAIN ins :
                  IF ~Has(ins[i], "locations") \/ ins[i].locations = <<>>
                  THEN outs[i].locations = <<PlaceholderLocation>>
                  ELSE /\ Len(outs[i].locations) = Len(ins[i].locations)
                       /\ \A l \in DOMAIN ins[i].locations :
                             LET a == ins[i].locations[l]
                                 b == outs[i].locations[l]
                             IN  IF Has(a, "physicalLocation") THEN b = a
                                 ELSE /\ DOMAIN b = DOMAIN a \cup {"physicalLocation"}
                                      /\ b.physicalLocation = PlaceholderLocation.physicalLocation
                                      /\ \A f \in DOMAIN a : b[f] = a[f]

C2_Witness ==
    /\ Completed
    /\ \E i \in DOMAIN FirstResults(Last.input) :
          LET f == FirstResults(Last.input)[i]
          IN  Has(f, "locations") /\ f.locations = <<>>
    /\ \E i \in DOMAIN FirstResults(Last.input) :
          LET f == FirstResults(Last.input)[i]
          IN  /\ Has(f, "locations")
              /\ \E l \in DOMAIN f.locations : ~Has(f.locations[l], "physicalLocation")

\* C3 as stated: without an assessment path, or with a path that does not
\* exist, the written document is the input document except for locations.
C3_OnlyLocationsDiffer ==
    (Completed /\ yaml_src.kind \in {"nopath", "nofile"}) =>
        EraseLocations(Last.output) = EraseLocations(Last.input)

\* C3 amended: without an assessment path, or with a path that does not
\* exist, no finding is added or removed and each finding differs from the
\* input at most in its locations; the rest of the document is the input
\* except that a missing or empty run list becomes the one default run, a
\* missing results list of the first run becomes the empty list, and the
\* first run's tool driver, if it has one, has its name defaulted when
\* missing or empty and its rules removed.  Later runs are unchanged.
C3_NoMergeFrame ==
    (Completed /\ yaml_src.kind \in {"nopath", "nofile"}) =>
        LET in == Last.input
            out == Last.output
            ins == FirstResults(in)
            outs == FirstResults(out)
        IN  /\ Last.count = Len(ins)
            /\ Len(outs) = Len(ins)
            /\ \A i \in DOMAIN ins : WithoutLocations(outs[i]) = WithoutLocations(ins[i])
            /\ DOMAIN out = DOMAIN in \cup {"runs"}
            /\ \A f \in DOMAIN in \ {"runs"} : out[f] = in[f]
            /\ IF ~HasRuns(in)
               THEN out.runs =
                      <<[tool |-> [driver |-> [name |-> "OSPS Security Assessment",
                                               version |-> "1.0.0"]],
                         results |-> <<>>]>>
               ELSE /\ Len(out.runs) = Len(in.runs)
                    /\ \A k \in 2..Len(in.runs) : out.runs[k] = in.runs[k]
                    /\ DOMAIN out.runs[1] = DOMAIN in.runs[1] \cup {"results"}
                    /\ IF Has(in.runs[1], "tool") /\ Has(in.runs[1].tool, "driver")
                       THEN LET a == in.runs[1].tool.driver
                                b == out.runs[1].tool.driver
                            IN  /\ DOMAIN out.runs[1].tool = DOMAIN in.runs[1].tool
                                /\ DOMAIN b = (DOMAIN a \cup {"name"}) \ {"rules"}
                                /\ \A f \in DOMAIN b \ {"name"} : b[f] = a[f]
                                /\ b.name = IF Has(a, "name") /\ a.name # "" THEN a.name
                                            ELSE "OSPS Security Assessment"
                       ELSE Has(in.runs[1], "tool") => out.runs[1].tool = in.runs[1].tool

C3_Witness ==
    /\ Completed
    /\ yaml_src.kind = "nofile"
    /\ Len(history) = 1
    /\ HasRuns(Last.input)
    /\ Has(Last.input.runs[1], "tool") /\ Has(Last.input.runs[1].tool, "driver")
    /\ Has(Last.input.runs[1].tool.driver, "rules")
    /\ Len(FirstResults(Last.input)) > 0

\* C4: no finding the merge appends comes from an assessment entry whose
\* result is "Not Run" or whose requirement id or result is empty or missing:
\* every appended finding carries the rule id, level and message of an entry
\* that has a non-empty requirement id and a non-empty result other than
\* "Not Run", and no more findings are appended than there are such entries.
C4_IneligibleNeverAdded ==
    Completed =>
        LET es == EntriesOf(yaml_src)
            good == {i \in DOMAIN es : Eligible(es[i])}
            app == AppendedOf(Last)
        IN  /\ \A i \in DOMAIN app : \E g \in good :
                  /\ app[i].ruleId = EntryRuleId(es[g])
                  /\ app[i].level = ExpectedLevel(es[g].a.result)
                  /\ app[i].message = ExpectedFinding(es[g]).message
            /\ Len(app) <= Cardinality(good)

C4_Witness ==
    /\ Completed
    /\ Len(history) = 1
    /\ Len(AppendedOf(Last)) > 0
    /\ \E i \in DOMAIN EntriesOf(yaml_src) :
          LET e == EntriesOf(yaml_src)[i]
          IN  /\ Has(e.a, "result") /\ e.a.result = <<"N","o","t"," ","R","u","n">>
              /\ Has(e.a, "requirement_id") /\ e.a.requirement_id # <<>>
              /\ EntryRuleId(e) \notin RuleIdsIn(FirstResults(Last.output))
    /\ \E i \in DOMAIN EntriesOf(yaml_src) : ~Has(EntriesOf(yaml_src)[i].a, "requirement_id")
    /\ \E i \in DOMAIN EntriesOf(yaml_src) : ~Has(EntriesOf(yaml_src)[i].a, "result")

\* C5: an assessment file that is missing or cannot be parsed does not stop
\* the run: the run completes, appends nothing, writes a parsable findings
\* file that holds every finding the input held (an unparsable file is
\* reported once on the diagnostic stream); the run aborts only when the
\* findings file cannot be parsed, and then writes nothing.
C5_AssessmentErrorsNotFatal ==
    /\ pc = "fatal" =>
          /\ ~sarif_in.parsable
          /\ sarif_file = sarif_in
          /\ Len(history) = invocation - 1
    /\ ~sarif_in.parsable => pc \in {"start", "fatal"}
    /\ (Completed /\ yaml_src.kind \in {"nofile", "unparsable"}) =>
          LET ins == FirstResults(Last.input)
              outs == FirstResults(Last.output)
          IN  /\ sarif_file = [parsable |-> TRUE, data |-> Last.output]
              /\ Last.count = Last.existing
              /\ Len(outs) = Len(ins)
              /\ \A i \in DOMAIN ins : WithoutLocations(outs[i]) = WithoutLocations(ins[i])
              /\ Last.stderr = IF yaml_src.kind = "unparsable" THEN 1 ELSE 0

C5_Witness ==
    /\ Completed
    /\ yaml_src.kind = "unparsable"
    /\ Last.stderr = 1
    /\ Len(FirstResults(Last.output)) = MaxResults

\* C7 as stated: the written document has at least one run and every run has
\* a results list.
C7_EveryRunHasResults ==
    Completed =>
        /\ HasRuns(Last.output)
        /\ \A k \in DOMAIN Last.output.runs : Has(Last.output.runs[k], "results")

\* C7 amended: the written document has at least one run and its first run
\* has a results list (empty when the input's first run had none and nothing
\* was appended); runs after the first are written as they were read, with or
\* without a results list; when the input has no runs, the output has exactly
\* one run, which has the fixed tool name and version and holds exactly the
\* appended findings.
C7_FirstRunHasResults ==
    Completed =>
        LET in == Last.input
            out == Last.output
        IN  /\ HasRuns(out)
            /\ Has(out.runs[1], "results")
            /\ Len(out.runs[1].results) = Len(FirstResults(in)) + Len(AppendedOf(Last))
            /\ IF HasRuns(in)
               THEN /\ Len(out.runs) = Len(in.runs)
                    /\ \A k \in 2..Len(in.runs) : out.runs[k] = in.runs[k]
               ELSE /\ Len(out.runs) = 1
                    /\ DOMAIN out.runs[1] = {"tool", "results"}
                    /\ out.runs[1].tool =
                         [driver |-> [name |-> "OSPS Security Assessment", version |-> "1.0.0"]]
                    /\ Last.existing = 0
                    /\ out.runs[1].results = AppendedOf(Last)

C7_Witness ==
    /\ Completed
    /\ Len(history) = 1
    /\ HasRuns(Last.input)
    /\ ~Has(Last.input.runs[1], "results")
    /\ Len(Last.input.runs) > 1
    /\ Last.output.runs[1].results = <<>>

\* C8 as stated: the first run of the written document has a tool driver
\* with a non-empty name and no rules.
C8_DriverAlwaysNamed ==
    Completed =>
        /\ Has(Last.output.runs[1], "tool")
        /\ Has(Last.output.runs[1].tool, "driver")
        /\ Has(Last.output.runs[1].tool.driver, "name")
        /\ Last.output.runs[1].tool.driver.name # ""
        /\ ~Has(Last.output.runs[1].tool.driver, "rules")

\* C8 amended: when the first run has a tool with a driver, the written
\* driver has a non-empty name (the input's name, or the fixed product name
\* when the input's was missing or empty), has no rules field and is otherwise
\* as read; a first run without a tool, or whose tool has no driver, is
\* written without one.
C8_DriverNamedWhenPresent ==
    Completed =>
        LET out == Last.output.runs[1]
        IN  IF HasRuns(Last.input)
            THEN LET in == Last.input.runs[1]
                 IN  IF Has(in, "tool") /\ Has(in.tool, "driver")
                     THEN /\ Has(out, "tool") /\ Has(out.tool, "driver")
                          /\ Has(out.tool.driver, "name")
                          /\ out.tool.driver.name # ""
                          /\ out.tool.driver.name =
                                IF Has(in.tool.driver, "name") /\ in.tool.driver.name # ""
                                THEN in.tool.driver.name
                                ELSE "OSPS Security Assessment"
                          /\ ~Has(out.tool.driver, "rules")
                          /\ \A f \in DOMAIN in.tool.driver \ {"name", "rules"} :
                                Has(out.tool.driver, f) /\ out.tool.driver[f] = in.tool.driver[f]
                     ELSE IF Has(in, "tool")
                          THEN Has(out, "tool") /\ out.tool = in.tool
                          ELSE ~Has(out, "tool")
            ELSE /\ out.tool.driver.name = "OSPS Security Assessment"
                 /\ ~Has(out.tool.driver, "rules")

C8_Witness ==
    /\ Completed
    /\ Len(history) = 1
    /\ HasRuns(Last.input)
    /\ Has(Last.input.runs[1], "tool") /\ Has(Last.input.runs[1].tool, "driver")
    /\ Has(Last.input.runs[1].tool.driver, "rules")
    /\ Has(Last.input.runs[1].tool.driver, "name")
    /\ Last.input.runs[1].tool.driver.name = ""
    /\ Last.output.runs[1].tool.driver.name = "OSPS Security Assessment"

\* C9: every finding the merge appends is, for some eligible assessment
\* entry (control id C, requirement id R, result L, message M), exactly the
\* finding with ruleId C/R, the level of L, the message text M (or "R: L"
\* when M is empty or missing) and the single location README.md whose
\* logical fullyQualifiedName is the rule id; with no runs in the input and
\* the one control C1 whose first entry is (R1, Failed, bad), the output is
\* one run with the one result C1/R1, error, bad, README.md.
C9_AppendedFindingShape ==
    Completed =>
        LET es == EntriesOf(yaml_src)
            app == AppendedOf(Last)
        IN  /\ \A i \in DOMAIN app :
                  \E g \in DOMAIN es : Eligible(es[g]) /\ app[i] = ExpectedFinding(es[g])
            /\ ( /\ Len(history) = 1
                 /\ ~HasRuns(Last.input)
                 /\ yaml_src.kind = "parsed"
                 /\ yaml_src.data =
                       [evaluation_suites |-> <<[control_evaluations |-> <<ControlA>>]>>] )
               => /\ Len(Last.output.runs) = 1
                  /\ Last.output.runs[1].results =
                       <<[ruleId |-> <<"C","1","/","R","1">>,
                          level |-> "error",
                          message |-> [text |-> <<"b","a","d">>],
                          locations |->
                            <<[physicalLocation |-> [artifactLocation |-> [uri |-> "README.md"]],
                               logicalLocations |->
                                 <<[fullyQualifiedName |-> <<"C","1","/","R","1">>]>>]>>]>>

C9_Witness ==
    /\ Completed
    /\ Len(history) = 1
    /\ \E i \in DOMAIN AppendedOf(Last) :
          AppendedOf(Last)[i].message.text = <<"R","1",":"," ","N","e","e","d","s"," ","R","e","v","i","e","w">>
    /\ \E i \in DOMAIN AppendedOf(Last) :
          /\ AppendedOf(Last)[i].message.text = <<"b","a","d">>
          /\ AppendedOf(Last)[i].level = "error"

\* C10: the merge only appends to the first run's results: every
\* pre-existing finding is at its original position with everything but its
\* locations unchanged; the appended findings are, in assessment-document
\* order (suite, control, assessment), those of the eligible entries whose rule
\* id no pre-existing finding and no earlier eligible entry carries; and the
\* returned count is the number of pre-existing findings plus the number
\* appended.
C10_AppendOnlyInOrder ==
    Completed =>
        LET ins == FirstResults(Last.input)
            outs == FirstResults(Last.output)
            exp == FirstEligible(yaml_src, Last.input)
        IN  /\ Last.existing = Len(ins)
            /\ Len(outs) = Len(ins) + Len(exp)
            /\ \A i \in DOMAIN ins : WithoutLocations(outs[i]) = WithoutLocations(ins[i])
            /\ \A k \in DOMAIN exp : outs[Len(ins) + k] = ExpectedFinding(exp[k])
            /\ Last.count = Len(ins) + Len(exp)
            /\ result_count = Last.count

C10_Witness ==
    /\ Completed
    /\ Len(history) = 1
    /\ Last.existing > 0
    /\ Len(FirstEligible(yaml_src, Last.input)) >= 3
    /\ \E i \in DOMAIN EntriesOf(yaml_src) :
          LET es == EntriesOf(yaml_src)
          IN  /\ Eligible(es[i])
              /\ \E j \in 1..(i - 1) :
                    /\ Eligible(es[j])
                    /\ EntryRuleId(es[j]) = EntryRuleId(es[i])
                    /\ ExpectedFinding(es[j]) # ExpectedFinding(es[i])

====
